---------------------------- MODULE Spec2Model ----------------------------
(***************************************************************************)
(* Model of the merkle tree builder and verifier of                        *)
(* v4lproik/merkle-tree-benchmark (package pkg, command cmd).              *)
(*                                                                         *)
(* Bytes are symbolic.  A byte is a pair <<t, k>>: for a byte sequence t   *)
(* and k >= 1 it is the k-th byte of the digest of t (the hash is taken    *)
(* to be injective), and <<<<>>, c - 256>> is the literal byte c.  A       *)
(* digest is a sequence of HashLen bytes, a scratch buffer a sequence of   *)
(* BufLen bytes.                                                           *)
(***************************************************************************)
EXTENDS Integers, Sequences, FiniteSets, TLC

(* Bounds of the model. *)
HashLen == 2
BufLen == 5
MaxItems == 3
MaxG == 2
NBufs == 1

Values == {1, 2}

-----------------------------------------------------------------------------
(* Bytes, digests and comparison. *)

Lit(c) == <<<<>>, c - 256>>

(* A function on 1..n as a sequence value. *)
AsSeq(f) == f \o <<>>

(* With(x, F) is F(x), with x evaluated once. *)
With(x, F(_)) == CHOOSE v \in {F(y) : y \in {x}} : TRUE

StringBytes(v) == <<Lit(v)>>

NewEngine == <<>>

Write(h, p) == h \o p

Sum(h) == AsSeq([k \in 1..HashLen |-> <<h, k>>])

ResetKeeps(h) == h

Reset(h) == <<>>

MinOf(S) == CHOOSE x \in S : \A y \in S : x <= y

MaxOf(S) == CHOOSE x \in S : \A y \in S : x >= y

RECURSIVE Compare(_, _)
CompareByte(x, y) ==
    IF x = y THEN 0
    ELSE IF x[1] = y[1] THEN (IF x[2] < y[2] THEN -1 ELSE 1)
    ELSE Compare(x[1], y[1])

Compare(a, b) ==
    IF a = b THEN 0
    ELSE IF \A i \in DOMAIN a : i \in DOMAIN b /\ a[i] = b[i] THEN -1
    ELSE IF \A i \in DOMAIN b : i \in DOMAIN a /\ a[i] = b[i] THEN 1
    ELSE LET i == CHOOSE k \in DOMAIN a :
                      /\ a[k] # b[k]
                      /\ \A m \in 1..(k - 1) : a[m] = b[m]
         IN  CompareByte(a[i], b[i])

Equal(a, b) == a = b

-----------------------------------------------------------------------------
(* The scratch buffers and concat. *)

MakeBuf == AsSeq([i \in 1..BufLen |-> Lit(0)])

ConcatSwapNever(isSort, b1, b2) == <<b1, b2>>

ConcatOperands(isSort, b1, b2) ==
    IF isSort /\ Compare(b1, b2) = 1 THEN <<b2, b1>> ELSE <<b1, b2>>

ConcatFill(b, s1, s2) ==
    AsSeq([j \in 1..BufLen |->
        IF j <= Len(s1) THEN s1[j]
        ELSE IF j <= Len(s2) THEN s1[1]
        ELSE b[j]])

Concat(b, isSort, b1, b2) ==
    With(ConcatOperands(isSort, b1, b2), LAMBDA ops : ConcatFill(b, ops[1], ops[2]))


-----------------------------------------------------------------------------
(* Hash identifiers. *)

SHA256 == "sha256"

UNKNOWNHASH == "unknown"

IsValid(s) == s = SHA256

HashFuncPanics(s) == s # SHA256

-----------------------------------------------------------------------------
(* The program state. *)

VARIABLES
    cfg,        \* MerkleTreeConfig: hasherNil, hash, pool, isSort, maxG
    data,       \* the items given to Build
    pc,         \* position of the Build call
    leaves,     \* the leaves array of generateLeafNodes (0 is nil)
    cur,        \* leafNodes of the running generateParentNodes call
    nxt,        \* nodes of the running generateParentNodes call
    spawned,    \* number of errs.Go calls made in the running loop
    workers,    \* goroutines in flight, by loop index
    nodes,      \* the heap of Node values, by node id
    bufs,       \* the scratch buffers ever put in the buffers pool
    hpool,      \* the idle engines of the HashPool
    mtRoot,     \* mt.Root (0 is nil)
    mtLeaves,   \* mt.Leaves (<<>> is nil)
    ret,        \* what the call returned: tree ("none", "nil", "mt") and err
    vq,         \* the last Verify call: item, pool, ok, err
    ctxDone,    \* the phase in which the caller's context was cancelled
    tampered,   \* the node whose stored digest was overwritten (0: none)
    cmb,        \* the combination steps of the stand-alone combine runs
    lease,      \* a pool on its own: its instances, idle list and holders
    failed      \* the errors the goroutines of the running group returned

vars == <<cfg, data, pc, leaves, cur, nxt, spawned, workers, nodes, bufs,
          hpool, mtRoot, mtLeaves, ret, vq, ctxDone, tampered, cmb, lease,
          failed>>

buildVars == <<leaves, cur, nxt, spawned, workers, nodes, mtRoot, mtLeaves>>

ErrHasherIsNil == "ErrMerkleTreeConfigHasherIsNil"

ErrMaxGoroutineIsEqZero == "ErrMerkleTreeConfigMaxGoroutineIsEqZero"

ErrDataIsNilOrEmpty == "ErrMerkleTreeDataIsNilOrEmpty"

NoErr == "nil"

Configs ==
    [hasherNil : BOOLEAN, hash : {SHA256, UNKNOWNHASH}, pool : BOOLEAN,
     isSort : BOOLEAN, maxG : 0..MaxG]

ItemSeqs == UNION {[1..n -> Values] : n \in 0..MaxItems}

NoVerify == [item |-> 0, pool |-> FALSE, ok |-> FALSE, err |-> "none"]

NoCombine == <<>>

NoLease == <<>>

Init ==
    /\ cfg \in {c \in Configs : c.hasherNil => (c.hash = SHA256 /\ ~c.pool /\ ~c.isSort)}
    /\ data \in ItemSeqs
    /\ pc = "init"
    /\ leaves = <<>>
    /\ cur = <<>>
    /\ nxt = <<>>
    /\ spawned = 0
    /\ workers = <<>>
    /\ nodes = <<>>
    /\ bufs = <<>>
    /\ hpool = <<>>
    /\ mtRoot = 0
    /\ mtLeaves = <<>>
    /\ ret = [tree |-> "none", err |-> NoErr]
    /\ vq = NoVerify
    /\ ctxDone = "no"
    /\ tampered = 0
    /\ cmb = NoCombine
    /\ failed = <<>>
    /\ lease = NoLease

-----------------------------------------------------------------------------
(* Leasing from the pools. *)

GetHash(hp) ==
    IF hp = <<>> THEN [eng |-> NewEngine, rest |-> <<>>]
    ELSE [eng |-> Head(hp), rest |-> Tail(hp)]

CloseHash(hp, e) == Append(hp, Reset(e))

BufChoices(bs) == (1..Len(bs)) \cup (IF Len(bs) < NBufs THEN {Len(bs) + 1} ELSE {})

GetConcatBuffers(bs, b) == IF b <= Len(bs) THEN bs[b] ELSE MakeBuf

BuffClose(bs, b, content) ==
    IF b <= Len(bs) THEN [bs EXCEPT ![b] = content] ELSE Append(bs, content)

-----------------------------------------------------------------------------
(* Nodes. *)

DataHash(eng, v) == Sum(Write(eng, StringBytes(v)))

newLeafUnflagged(eng, d, isPadding) ==
    [Parent |-> 0, Left |-> 0, Right |-> 0, isOrphan |-> FALSE,
     Hash |-> DataHash(eng, d), Data |-> d]

newLeaf(eng, d, isPadding) ==
    [Parent |-> 0, Left |-> 0, Right |-> 0, isOrphan |-> isPadding,
     Hash |-> DataHash(eng, d), Data |-> d]

ParentNode(left, right, hash) ==
    [Parent |-> 0, Left |-> left, Right |-> right, isOrphan |-> FALSE,
     Hash |-> hash, Data |-> 0]

isLeaf(n) == n.Left = 0 /\ n.Right = 0

Range(s) == {s[i] : i \in DOMAIN s}

Nils(n) == AsSeq([i \in 1..n |-> 0])


-----------------------------------------------------------------------------
(* sort.Sort(NodeSorter{nodes: leaves}): fewer than 12 elements are sorted  *)
(* by insertion.                                                            *)

Less(N, s, i, j) == Compare(N[s[i]].Hash, N[s[j]].Hash) = -1

Swap(s, i, j) == [s EXCEPT ![i] = s[j], ![j] = s[i]]

RECURSIVE InsertDown(_, _, _)
InsertDown(N, s, j) ==
    IF j > 1 /\ Less(N, s, j, j - 1)
    THEN InsertDown(N, Swap(s, j, j - 1), j - 1)
    ELSE s

RECURSIVE SortFrom(_, _, _)
SortFrom(N, s, i) ==
    IF i > Len(s) THEN s ELSE SortFrom(N, InsertDown(N, s, i), i + 1)

SortNodesNone(N, s) == s

SortNodes(N, s) == SortFrom(N, s, 2)

-----------------------------------------------------------------------------
(* MerkleTreeBuilder.Build and the two generators. *)

ValidationNoDataCheck(c, d) ==
    IF c.hasherNil THEN ErrHasherIsNil
    ELSE IF c.maxG = 0 THEN ErrMaxGoroutineIsEqZero
    ELSE NoErr

ValidationError(c, d) ==
    IF c.hasherNil THEN ErrHasherIsNil
    ELSE IF c.maxG = 0 THEN ErrMaxGoroutineIsEqZero
    ELSE IF Len(d) = 0 THEN ErrDataIsNilOrEmpty
    ELSE NoErr

ParentsLenFloor(n) == n \div 2

LeavesLen(d) == IF Len(d) % 2 = 1 THEN Len(d) + 1 ELSE Len(d)

ParentsLen(n) == IF n % 2 = 1 THEN n \div 2 + 1 ELSE n \div 2

BuildBody ==
    LET e == ValidationError(cfg, data)
    IN  IF e # NoErr
        THEN /\ pc' = "done"
             /\ ret' = [tree |-> "nil", err |-> e]
             /\ UNCHANGED leaves
        ELSE /\ pc' = "leaves"
             /\ leaves' = Nils(LeavesLen(data))
             /\ UNCHANGED ret

Build ==
    /\ pc = "init"
    /\ BuildBody
    /\ UNCHANGED <<cfg, data, cur, nxt, spawned, workers, nodes, bufs, hpool,
                   mtRoot, mtLeaves, vq, ctxDone, tampered, cmb, lease, failed>>

(* buildCmd.RunE: the command builds its Hasher from the flags.  At "exit"  *)
(* the command has returned ret.err without calling Build.                  *)
RunE ==
    /\ pc = "init"
    /\ ~cfg.hasherNil
    /\ IF ~IsValid(cfg.hash)
       THEN /\ pc' = "exit"
            /\ ret' = [tree |-> "nil", err |-> NoErr]
            /\ UNCHANGED leaves
       ELSE BuildBody
    /\ UNCHANGED <<cfg, data, cur, nxt, spawned, workers, nodes, bufs, hpool,
                   mtRoot, mtLeaves, vq, ctxDone, tampered, cmb, lease, failed>>

(* A caller making a MerkleTree value of its own, with no root and no       *)
(* leaves, instead of calling Build.                                        *)
EmptyTree ==
    /\ pc = "init"
    /\ pc' = "empty"
    /\ UNCHANGED <<cfg, data, leaves, cur, nxt, spawned, workers, nodes, bufs,
                   hpool, mtRoot, mtLeaves, ret, vq, ctxDone, tampered, cmb, lease, failed>>

Active == DOMAIN workers

(* The error of a Write of the engine that does not accept its input. *)
ErrWrite == "hf.Write(): failed"

(* fmt.Errorf(prefix + ": %w", err). *)
Wrap(prefix, err) == prefix \o ": " \o err

(* What the goroutine of index i (from 1) returns when NewLeaf fails. *)
LeafErr(i) == Wrap("NewLeaf(data[" \o ToString(i - 1) \o "])", Wrap("d.Hasher()", ErrWrite))

(* What the goroutine of pair c returns when NewParentNode fails; c stands  *)
(* for the two digests the message prints.                                  *)
PairErr(c) == Wrap("NewParentNode()", Wrap("hf.Write(concat(" \o ToString(c) \o "))", ErrWrite))

GroupErrLast(f) == IF f = <<>> THEN NoErr ELSE f[Len(f)]

(* The error errs.Wait() returns: the first a goroutine of the group        *)
(* returned, nil when none did.                                             *)
GroupErr(f) == IF f = <<>> THEN NoErr ELSE f[1]

IdleWorker == [pc |-> "go", buf |-> 0, eng |-> NewEngine, view |-> <<>>]

SlotAlwaysFree == TRUE

(* errs.SetLimit(MaxGoroutine): errs.Go blocks while that many goroutines   *)
(* of the group are active.                                                 *)
SlotFree == Cardinality(Active) < cfg.maxG

GoLeaf ==
    /\ pc = "leaves"
    /\ spawned < Len(data)
    /\ SlotFree
    /\ spawned' = spawned + 1
    /\ workers' = workers @@ ((spawned + 1) :> IdleWorker)
    /\ UNCHANGED <<cfg, data, pc, leaves, cur, nxt, nodes, bufs, hpool,
                   mtRoot, mtLeaves, ret, vq, ctxDone, tampered, cmb, lease, failed>>

Without(f, i) == [j \in DOMAIN f \ {i} |-> f[j]]

LeafSlotLoopVar(i, loop) == loop

(* The index the goroutine started for loop index i uses, the loop being at *)
(* index loop when the goroutine runs: its own copy i of the loop variable. *)
LeafSlot(i, loop) == i

LeafWorker(i) ==
    /\ pc = "leaves"
    /\ i \in Active
    /\ IF ~cfg.pool /\ HashFuncPanics(cfg.hash)
       THEN /\ pc' = "panic"
            /\ UNCHANGED <<leaves, nodes, hpool, workers>>
       ELSE LET g == GetHash(hpool)
                e == IF cfg.pool THEN g.eng ELSE NewEngine
                k == LeafSlot(i, spawned)
            IN  /\ nodes' = nodes @@ (i :> newLeaf(e, data[k], FALSE))
                /\ leaves' = [leaves EXCEPT ![k] = i]
                /\ hpool' = IF cfg.pool
                            THEN CloseHash(g.rest, Write(e, StringBytes(data[k])))
                            ELSE hpool
                /\ workers' = Without(workers, i)
                /\ UNCHANGED pc
    /\ UNCHANGED <<cfg, data, cur, nxt, spawned, bufs, mtRoot, mtLeaves, ret,
                   vq, ctxDone, tampered, cmb, lease, failed>>

(* errs.Wait() of generateLeafNodes, the padding leaf, the sort, and the    *)
(* entry of generateParentNodes up to its loop.                             *)
LeafWait ==
    /\ pc = "leaves"
    /\ spawned = Len(data)
    /\ Active = {}
    /\ IF GroupErr(failed) # NoErr
       THEN /\ ret' = [tree |-> "mt",
                       err |-> Wrap("mt.generateLeafNodes(data)", GroupErr(failed))]
            /\ pc' = "done"
            /\ UNCHANGED <<nodes, hpool, leaves, cur, nxt, spawned>>
       ELSE /\ LET n == Len(data)
                   odd == n % 2 = 1
                   g == GetHash(hpool)
                   e == IF cfg.pool THEN g.eng ELSE NewEngine
                   N1 == IF odd THEN nodes @@ ((n + 1) :> newLeaf(e, data[n], TRUE))
                         ELSE nodes
                   l1 == IF odd THEN [leaves EXCEPT ![n + 1] = n + 1] ELSE leaves
               IN  \E l2 \in {IF cfg.isSort THEN SortNodes(N1, l1) ELSE l1} :
                   /\ nodes' = N1
                   /\ hpool' = IF odd /\ cfg.pool
                               THEN CloseHash(g.rest, Write(e, StringBytes(data[n])))
                               ELSE hpool
                   /\ leaves' = l2
                   /\ cur' = l2
                   /\ nxt' = Nils(ParentsLen(Len(l2)))
            /\ pc' = "level"
            /\ spawned' = 0
            /\ UNCHANGED ret
    /\ UNCHANGED <<cfg, data, workers, bufs, mtRoot, mtLeaves, vq,
                   ctxDone, tampered, cmb, lease, failed>>


GoPair ==
    /\ pc = "level"
    /\ spawned < ParentsLen(Len(cur))
    /\ SlotFree
    /\ spawned' = spawned + 1
    /\ workers' = workers @@ ((spawned + 1) :> IdleWorker)
    /\ UNCHANGED <<cfg, data, pc, leaves, cur, nxt, nodes, bufs, hpool,
                   mtRoot, mtLeaves, ret, vq, ctxDone, tampered, cmb, lease, failed>>

LeftOf(c) == 2 * c - 1

RightOfSelf(c, n) == LeftOf(c)

RightOf(c, n) == IF LeftOf(c) = n THEN LeftOf(c) ELSE 2 * c

(* What a goroutine that still reads a buffer may see of a later write to   *)
(* it: every byte is the old one or the new one.                            *)
Mixes(old, new) ==
    {AsSeq([j \in 1..BufLen |-> IF j \in S THEN new[j] ELSE old[j]]) :
        S \in SUBSET {j \in 1..BufLen : old[j] # new[j]}}

Aliasers(c, b) ==
    {a \in Active \ {c} : workers[a].pc = "hash" /\ workers[a].buf = b}

(* NewParentNode up to the return of concat. *)
PairConcat(c) ==
    /\ pc = "level"
    /\ c \in Active
    /\ workers[c].pc = "go"
    /\ LET lh == nodes[cur[LeftOf(c)]].Hash
           rh == nodes[cur[RightOf(c, Len(cur))]].Hash
       IN  IF ~cfg.pool
           THEN IF HashFuncPanics(cfg.hash)
                THEN /\ pc' = "panic"
                     /\ UNCHANGED <<workers, bufs, hpool>>
                ELSE /\ workers' = [workers EXCEPT ![c] =
                            [pc |-> "hash", buf |-> 0, eng |-> NewEngine,
                             view |-> Concat(MakeBuf, cfg.isSort, lh, rh)]]
                     /\ UNCHANGED <<pc, bufs, hpool>>
           ELSE \E b \in BufChoices(bufs) :
                \E content \in {Concat(GetConcatBuffers(bufs, b), cfg.isSort, lh, rh)} :
                    LET al == Aliasers(c, b)
                    IN  \E torn \in [al -> Mixes(MakeBuf, content) \cup
                                           UNION {Mixes(workers[a].view, content) : a \in al}] :
                            /\ \A a \in al : torn[a] \in Mixes(workers[a].view, content)
                            /\ workers' = [a \in Active |->
                                    IF a = c
                                    THEN [pc |-> "hash", buf |-> b, eng |-> GetHash(hpool).eng,
                                          view |-> content]
                                    ELSE IF a \in al
                                    THEN [workers[a] EXCEPT !.view = torn[a]]
                                    ELSE workers[a]]
                            /\ bufs' = BuffClose(bufs, b, content)
                            /\ hpool' = GetHash(hpool).rest
                            /\ UNCHANGED pc
    /\ UNCHANGED <<cfg, data, leaves, cur, nxt, spawned, nodes, mtRoot,
                   mtLeaves, ret, vq, ctxDone, tampered, cmb, lease, failed>>

NodeBase == MaxOf(Range(cur))

AdoptsLeftOnly(n, l, r) == n = l

(* The nodes whose Parent the goroutine pairing l and r sets. *)
Adopts(n, l, r) == n = l \/ n = r

(* hf.Write, hf.Sum, the deferred Close, and the goroutine's writes. *)
PairFinish(c) ==
    /\ pc = "level"
    /\ c \in Active
    /\ workers[c].pc = "hash"
    /\ LET w == workers[c]
           l == cur[LeftOf(c)]
           r == cur[RightOf(c, Len(cur))]
           id == NodeBase + c
           written == Write(w.eng, w.view)
       IN  /\ nodes' = [n \in DOMAIN nodes |->
                           IF Adopts(n, l, r) THEN [nodes[n] EXCEPT !.Parent = id]
                           ELSE nodes[n]]
                       @@ (id :> ParentNode(l, r, Sum(written)))
           /\ nxt' = [nxt EXCEPT ![c] = id]
           /\ hpool' = IF cfg.pool THEN CloseHash(hpool, written) ELSE hpool
    /\ workers' = Without(workers, c)
    /\ UNCHANGED <<cfg, data, pc, leaves, cur, spawned, bufs, mtRoot,
                   mtLeaves, ret, vq, ctxDone, tampered, cmb, lease, failed>>

(* errs.Wait() of generateParentNodes, then the base case or the recursion, *)
(* and the end of Build.                                                    *)
(* The recursion of generateParentNodes is followed to this depth. *)
MaxLevels == 3

(* The number of levels below node n. *)
RECURSIVE Height(_, _)
Height(N, n) == IF N[n].Left = 0 THEN 0 ELSE 1 + Height(N, N[n].Left)

WaitPairsSkipped == TRUE

(* errs.Wait() returns once every goroutine of the group has returned. *)
WaitPairs == Active = {}

PairWait ==
    /\ pc = "level"
    /\ spawned = ParentsLen(Len(cur))
    /\ WaitPairs
    /\ IF GroupErr(failed) # NoErr
       THEN /\ mtRoot' = 0
            /\ ret' = [tree |-> "mt",
                       err |-> Wrap("mt.generateParentNodes()", GroupErr(failed))]
            /\ pc' = "done"
            /\ UNCHANGED <<cur, nxt, spawned, mtLeaves>>
       ELSE IF Len(cur) = 2
       THEN /\ mtRoot' = nodes[cur[Len(cur)]].Parent
            /\ mtLeaves' = leaves
            /\ ret' = [tree |-> "mt", err |-> NoErr]
            /\ pc' = "done"
            /\ UNCHANGED <<cur, nxt, spawned>>
       ELSE /\ Height(nodes, nxt[1]) < MaxLevels
            /\ cur' = nxt
            /\ nxt' = Nils(ParentsLen(Len(nxt)))
            /\ spawned' = 0
            /\ UNCHANGED <<mtRoot, mtLeaves, ret, pc>>
    /\ UNCHANGED <<cfg, data, leaves, workers, nodes, bufs, hpool, vq,
                   ctxDone, tampered, cmb, lease, failed>>

(* A caller of generateParentNodes itself, as the tests are, on an array of *)
(* k leaf nodes.                                                            *)
ReduceCall(k) ==
    /\ pc = "level"
    /\ cur = leaves
    /\ spawned = 0
    /\ \A c \in DOMAIN nxt : nxt[c] = 0
    /\ k \in 1..(Len(leaves) - 1)
    /\ leaves' = SubSeq(leaves, 1, k)
    /\ cur' = SubSeq(leaves, 1, k)
    /\ nxt' = Nils(ParentsLen(k))
    /\ nodes' = [n \in {leaves[i] : i \in 1..k} |-> nodes[n]]
    /\ UNCHANGED <<cfg, data, pc, spawned, workers, bufs, hpool, mtRoot,
                   mtLeaves, ret, vq, ctxDone, tampered, cmb, lease, failed>>

ReduceNext == \E k \in 1..MaxItems : ReduceCall(k)


-----------------------------------------------------------------------------
(* Goroutines that return an error: the Write of the engine, in the item's  *)
(* Hash or in NewParentNode, not accepting its input.                       *)

(* NewLeaf fails in the goroutine of index i: slot i stays nil. *)
LeafFail(i) ==
    /\ pc = "leaves"
    /\ i \in Active
    /\ ~(~cfg.pool /\ HashFuncPanics(cfg.hash))
    /\ hpool' = IF cfg.pool
                THEN CloseHash(GetHash(hpool).rest, GetHash(hpool).eng)
                ELSE hpool
    /\ failed' = Append(failed, LeafErr(i))
    /\ workers' = Without(workers, i)
    /\ UNCHANGED <<cfg, data, pc, leaves, cur, nxt, spawned, nodes, bufs, mtRoot,
                   mtLeaves, ret, vq, ctxDone, tampered, cmb, lease>>

(* NewOrphanLeaf fails after the goroutines have all returned nil. *)
PaddingFail ==
    /\ pc = "leaves"
    /\ spawned = Len(data)
    /\ Active = {}
    /\ GroupErr(failed) = NoErr
    /\ Len(data) % 2 = 1
    /\ ~(~cfg.pool /\ HashFuncPanics(cfg.hash))
    /\ hpool' = IF cfg.pool
                THEN CloseHash(GetHash(hpool).rest, GetHash(hpool).eng)
                ELSE hpool
    /\ ret' = [tree |-> "mt",
               err |-> Wrap("mt.generateLeafNodes(data)", Wrap("d.Hasher()", ErrWrite))]
    /\ pc' = "done"
    /\ UNCHANGED <<cfg, data, leaves, cur, nxt, spawned, workers, nodes, bufs,
                   mtRoot, mtLeaves, vq, ctxDone, tampered, cmb, lease, failed>>

(* NewParentNode fails in the goroutine of pair c, after concat: no node is *)
(* made and no Parent is set.                                               *)
PairFail(c) ==
    /\ pc = "level"
    /\ c \in Active
    /\ workers[c].pc = "hash"
    /\ hpool' = IF cfg.pool THEN CloseHash(hpool, workers[c].eng) ELSE hpool
    /\ failed' = Append(failed, PairErr(c))
    /\ workers' = Without(workers, c)
    /\ UNCHANGED <<cfg, data, pc, leaves, cur, nxt, spawned, nodes, bufs, mtRoot,
                   mtLeaves, ret, vq, ctxDone, tampered, cmb, lease>>

FailNext ==
    \/ \E i \in Active : LeafFail(i)
    \/ PaddingFail
    \/ \E c \in Active : PairFail(c)

-----------------------------------------------------------------------------
(* MerkleTree.Verify.  The pooled buffer the call works in and the idle     *)
(* engines are threaded through the computation.                            *)

StringDataHash(hp, pooled, v) ==
    LET g == GetHash(hp)
        e == IF pooled THEN g.eng ELSE NewEngine
    IN  [hash |-> DataHash(e, v),
         hp |-> IF pooled THEN CloseHash(g.rest, Write(e, StringBytes(v))) ELSE hp]

computeNodeHash(N, n, pooled, isSort, buf, hp) ==
    IF isLeaf(N[n])
    THEN LET r == StringDataHash(hp, pooled, N[n].Data)
         IN  [hash |-> r.hash, buf |-> buf, hp |-> r.hp]
    ELSE With(Concat(IF pooled THEN buf ELSE MakeBuf, isSort,
                     N[N[n].Left].Hash, N[N[n].Right].Hash), LAMBDA b :
         LET g == GetHash(hp)
             e == IF pooled THEN g.eng ELSE NewEngine
         IN  [hash |-> Sum(Write(e, b)),
              buf |-> IF pooled THEN b ELSE buf,
              hp |-> IF pooled THEN CloseHash(g.rest, Write(e, b)) ELSE hp])

RECURSIVE CloseAll(_, _)
CloseAll(hp, held) ==
    IF held = <<>> THEN hp
    ELSE CloseAll(CloseHash(hp, held[Len(held)]), SubSeq(held, 1, Len(held) - 1))

(* One turn of the loop over currentParent: the three digests and the       *)
(* engine left to the deferred Close.                                        *)
VerifyStep(pooled, isSort, l, r) ==
    With(Concat(IF pooled THEN r.buf ELSE MakeBuf, isSort, l.hash, r.hash), LAMBDA b :
    LET g == GetHash(r.hp)
        e == IF pooled THEN g.eng ELSE NewEngine
    IN  [hash |-> Sum(Write(e, b)),
         buf |-> IF pooled THEN b ELSE r.buf,
         hp |-> IF pooled THEN g.rest ELSE r.hp,
         held |-> IF pooled THEN <<Write(e, b)>> ELSE <<>>])

RECURSIVE VerifyWalk(_, _, _, _, _, _, _)
VerifyWalk(N, p, pooled, isSort, buf, hp, held) ==
    IF p = 0
    THEN [ok |-> TRUE, buf |-> buf, hp |-> CloseAll(hp, held)]
    ELSE With(computeNodeHash(N, N[p].Left, pooled, isSort, buf, hp), LAMBDA l :
         With(computeNodeHash(N, N[p].Right, pooled, isSort, l.buf, l.hp), LAMBDA r :
         With(VerifyStep(pooled, isSort, l, r), LAMBDA s :
            IF ~Equal(s.hash, N[p].Hash)
            THEN [ok |-> FALSE, buf |-> s.buf, hp |-> CloseAll(s.hp, held \o s.held)]
            ELSE With([buf |-> s.buf, hp |-> s.hp, held |-> held \o s.held], LAMBDA t :
                 VerifyWalk(N, N[p].Parent, pooled, isSort, t.buf, t.hp, t.held)))))

FirstMatch(N, L, h) == MinOf({i \in DOMAIN L : Equal(N[L[i]].Hash, h)})

LastMatch(N, L, h) == MaxOf({i \in DOMAIN L : Equal(N[L[i]].Hash, h)})

MatchedLeaf(N, L, h) == FirstMatch(N, L, h)

VerifyCallAnyMatch(N, L, item, pooled, isSort, buf, hp) ==
    IF Len(L) = 0
    THEN [ok |-> FALSE, buf |-> buf, hp |-> hp]
    ELSE With(StringDataHash(hp, pooled, item), LAMBDA h :
            IF \A i \in DOMAIN L : ~Equal(N[L[i]].Hash, h.hash)
            THEN [ok |-> FALSE, buf |-> buf, hp |-> h.hp]
            ELSE With(VerifyWalk(N, N[L[FirstMatch(N, L, h.hash)]].Parent, pooled,
                                 isSort, buf, h.hp, <<>>), LAMBDA w :
                 [w EXCEPT !.ok =
                    \E i \in DOMAIN L :
                        /\ Equal(N[L[i]].Hash, h.hash)
                        /\ VerifyWalk(N, N[L[i]].Parent, pooled, isSort, buf,
                                      h.hp, <<>>).ok]))

VerifyCallFallsThrough(N, L, item, pooled, isSort, buf, hp) ==
    IF Len(L) = 0
    THEN [ok |-> FALSE, buf |-> buf, hp |-> hp]
    ELSE With(StringDataHash(hp, pooled, item), LAMBDA h :
            IF \A i \in DOMAIN L : ~Equal(N[L[i]].Hash, h.hash)
            THEN [ok |-> TRUE, buf |-> buf, hp |-> h.hp]
            ELSE VerifyWalk(N, N[L[MatchedLeaf(N, L, h.hash)]].Parent, pooled,
                            isSort, buf, h.hp, <<>>))

VerifyCallNoEmptyCheck(N, L, item, pooled, isSort, buf, hp) ==
    With(StringDataHash(hp, pooled, item), LAMBDA h :
        IF \A i \in DOMAIN L : ~Equal(N[L[i]].Hash, h.hash)
        THEN [ok |-> FALSE, buf |-> buf, hp |-> h.hp]
        ELSE VerifyWalk(N, N[L[MatchedLeaf(N, L, h.hash)]].Parent, pooled,
                        isSort, buf, h.hp, <<>>))

VerifyCall(N, L, item, pooled, isSort, buf, hp) ==
    IF Len(L) = 0
    THEN [ok |-> FALSE, buf |-> buf, hp |-> hp]
    ELSE With(StringDataHash(hp, pooled, item), LAMBDA h :
            IF \A i \in DOMAIN L : ~Equal(N[L[i]].Hash, h.hash)
            THEN [ok |-> FALSE, buf |-> buf, hp |-> h.hp]
            ELSE VerifyWalk(N, N[L[MatchedLeaf(N, L, h.hash)]].Parent, pooled,
                            isSort, buf, h.hp, <<>>))

(* The digest Verify computes for internal node x when its walk reaches it. *)
Recompute(N, x, isSort) ==
    LET l == computeNodeHash(N, N[x].Left, FALSE, isSort, MakeBuf, <<>>)
        r == computeNodeHash(N, N[x].Right, FALSE, isSort, MakeBuf, <<>>)
    IN  VerifyStep(FALSE, isSort, l, r).hash

NodesRepaired(N, isSort) ==
    [n \in DOMAIN N |->
        IF isLeaf(N[n]) THEN N[n] ELSE [N[n] EXCEPT !.Hash = Recompute(N, n, isSort)]]

(* The nodes after a Verify call: Verify and computeNodeHash assign to no   *)
(* field of a node.                                                         *)
NodesVerified(N, isSort) == N

Verify(item, vp) ==
    /\ \/ pc = "done" /\ ret.tree = "mt"
       \/ pc = "empty"
    /\ nodes' = NodesVerified(nodes, cfg.isSort)
    /\ IF Len(mtLeaves) # 0 /\ ~vp /\ HashFuncPanics(cfg.hash)
       THEN /\ vq' = [item |-> item, pool |-> vp, ok |-> FALSE, err |-> "panic"]
            /\ UNCHANGED <<bufs, hpool>>
       ELSE \E b \in (IF vp THEN BufChoices(bufs) ELSE {0}) :
               \E b0 \in {IF vp THEN GetConcatBuffers(bufs, b) ELSE MakeBuf} :
               \E r \in {VerifyCall(nodes, mtLeaves, item, vp, cfg.isSort, b0, hpool)} :
                   /\ vq' = [item |-> item, pool |-> vp, ok |-> r.ok, err |-> NoErr]
                   /\ bufs' = IF vp /\ r.buf # b0 THEN BuffClose(bufs, b, r.buf) ELSE bufs
                   /\ hpool' = r.hp
    /\ UNCHANGED <<cfg, data, pc, leaves, cur, nxt, spawned, workers,
                   mtRoot, mtLeaves, ret, ctxDone, tampered, cmb, lease, failed>>

-----------------------------------------------------------------------------
(* A caller overwriting the stored digest of an internal node that is not   *)
(* the root, as the tampering scenario of the tests does.                   *)

Garbage == Sum(<<Lit(255)>>)

Internal == {x \in DOMAIN nodes : ~isLeaf(nodes[x]) /\ x # mtRoot}

Tamper(x, h) ==
    /\ pc = "done"
    /\ ret.tree = "mt"
    /\ tampered = 0
    /\ x \in Internal
    /\ h # nodes[x].Hash
    /\ nodes' = [nodes EXCEPT ![x].Hash = h]
    /\ tampered' = x
    /\ vq' = NoVerify
    /\ UNCHANGED <<cfg, data, pc, leaves, cur, nxt, spawned, workers, bufs,
                   hpool, mtRoot, mtLeaves, ret, ctxDone, cmb, lease, failed>>

TamperNext ==
    \E x \in Internal : \E h \in {Garbage, Recompute(nodes, x, cfg.isSort)} : Tamper(x, h)

-----------------------------------------------------------------------------
(* The caller cancelling the context given to Build while goroutines of a   *)
(* level are in flight.                                                     *)

Cancel ==
    /\ pc \in {"leaves", "level"}
    /\ Active # {}
    /\ ctxDone = "no"
    /\ ctxDone' = pc
    /\ UNCHANGED <<cfg, data, pc, leaves, cur, nxt, spawned, workers, nodes,
                   bufs, hpool, mtRoot, mtLeaves, ret, vq, tampered, cmb, lease, failed>>

-----------------------------------------------------------------------------
(* Combination steps on their own: the digest NewParentNode stores and the  *)
(* digest Verify compares, for a pair of digests.                           *)

MaxCombine == 2

LeafDigest(v) == DataHash(NewEngine, v)

PairDigest(isSort, d1, d2) ==
    Sum(Write(NewEngine, Concat(MakeBuf, isSort, d1, d2)))

Digests ==
    {LeafDigest(v) : v \in Values}
        \cup {PairDigest(FALSE, LeafDigest(v), LeafDigest(v)) : v \in Values}

InitCombine ==
    /\ cfg \in {c \in Configs : ~c.hasherNil /\ c.hash = SHA256 /\ c.maxG = 1}
    /\ data = <<>>
    /\ pc = "combine"
    /\ leaves = <<>>
    /\ cur = <<>>
    /\ nxt = <<>>
    /\ spawned = 0
    /\ workers = <<>>
    /\ nodes = <<>>
    /\ bufs = <<>>
    /\ hpool = <<>>
    /\ mtRoot = 0
    /\ mtLeaves = <<>>
    /\ ret = [tree |-> "none", err |-> NoErr]
    /\ vq = NoVerify
    /\ ctxDone = "no"
    /\ tampered = 0
    /\ cmb = NoCombine
    /\ failed = <<>>
    /\ lease = NoLease

(* NewParentNode(p, left, right).Hash for left.Hash = d1, right.Hash = d2.  *)
CombineBuild(d1, d2) ==
    /\ pc = "combine"
    /\ Len(cmb) < MaxCombine
    /\ \E b \in (IF cfg.pool THEN BufChoices(bufs) ELSE {0}) :
       \E fed \in {Concat(IF cfg.pool THEN GetConcatBuffers(bufs, b) ELSE MakeBuf,
                          cfg.isSort, d1, d2)} :
           LET g == GetHash(hpool)
               e == IF cfg.pool THEN g.eng ELSE NewEngine
           IN  /\ cmb' = Append(cmb, [by |-> "build", d1 |-> d1, d2 |-> d2,
                                      fed |-> fed, out |-> Sum(Write(e, fed))])
               /\ bufs' = IF cfg.pool THEN BuffClose(bufs, b, fed) ELSE bufs
               /\ hpool' = IF cfg.pool THEN CloseHash(g.rest, Write(e, fed)) ELSE hpool
    /\ UNCHANGED <<cfg, data, pc, leaves, cur, nxt, spawned, workers, nodes,
                   mtRoot, mtLeaves, ret, vq, ctxDone, tampered, lease, failed>>

(* The digest Verify computes from leftNodeHash = d1, rightNodeHash = d2. *)
CombineVerify(d1, d2) ==
    /\ pc = "combine"
    /\ Len(cmb) < MaxCombine
    /\ \E b \in (IF cfg.pool THEN BufChoices(bufs) ELSE {0}) :
       \E s \in {VerifyStep(cfg.pool, cfg.isSort, [hash |-> d1],
                            [hash |-> d2,
                             buf |-> IF cfg.pool THEN GetConcatBuffers(bufs, b) ELSE MakeBuf,
                             hp |-> hpool])} :
           /\ cmb' = Append(cmb, [by |-> "verify", d1 |-> d1, d2 |-> d2,
                                  fed |-> IF cfg.pool THEN s.buf
                                          ELSE Concat(MakeBuf, cfg.isSort, d1, d2),
                                  out |-> s.hash])
           /\ bufs' = IF cfg.pool THEN BuffClose(bufs, b, s.buf) ELSE bufs
           /\ hpool' = CloseAll(s.hp, s.held)
    /\ UNCHANGED <<cfg, data, pc, leaves, cur, nxt, spawned, workers, nodes,
                   mtRoot, mtLeaves, ret, vq, ctxDone, tampered, lease, failed>>

NextCombine ==
    \/ \E d1 \in Digests, d2 \in Digests : CombineBuild(d1, d2)
    \/ \E d1 \in Digests, d2 \in Digests : CombineVerify(d1, d2)

-----------------------------------------------------------------------------
(* A pool on its own, with the identity of its instances: the HashPool of   *)
(* engines ("hash") or the pool of scratch buffers ("buf"), and goroutines  *)
(* that get a handle, write through it, Close it any number of times and    *)
(* forget it.  ref[h] is the handle goroutine h holds (0 is nil), open[h]   *)
(* says h has got it and not closed it since, dirty is the set of instances *)
(* written to since their last Reset.                                       *)

MaxClose == 3

Holders == 1..MaxG

PoolKinds == {"hash", "buf"}

InitLease ==
    /\ cfg = [hasherNil |-> FALSE, hash |-> SHA256, pool |-> TRUE,
              isSort |-> FALSE, maxG |-> MaxG]
    /\ data = <<>>
    /\ pc = "lease"
    /\ leaves = <<>>
    /\ cur = <<>>
    /\ nxt = <<>>
    /\ spawned = 0
    /\ workers = <<>>
    /\ nodes = <<>>
    /\ bufs = <<>>
    /\ hpool = <<>>
    /\ mtRoot = 0
    /\ mtLeaves = <<>>
    /\ ret = [tree |-> "none", err |-> NoErr]
    /\ vq = NoVerify
    /\ ctxDone = "no"
    /\ tampered = 0
    /\ cmb = NoCombine
    /\ failed = <<>>
    /\ \E k \in PoolKinds :
        lease = [kind |-> k, idle |-> <<>>, made |-> 0,
                 ref |-> [h \in Holders |-> 0],
                 open |-> [h \in Holders |-> FALSE],
                 dirty |-> {}, closes |-> 0]

leaseFrame == <<cfg, data, pc, leaves, cur, nxt, spawned, workers, nodes, bufs,
                hpool, mtRoot, mtLeaves, ret, vq, ctxDone, tampered, cmb, failed>>

RemoveAt(q, i) == SubSeq(q, 1, i - 1) \o SubSeq(q, i + 1, Len(q))

(* sync.Pool.Get: an item of the pool, any of them, or a new instance when  *)
(* the pool is empty.                                                       *)
LeaseGet(h) ==
    /\ pc = "lease"
    /\ lease.ref[h] = 0
    /\ \E src \in (IF lease.idle = <<>> THEN {0} ELSE DOMAIN lease.idle) :
        LET id == IF src = 0 THEN lease.made + 1 ELSE lease.idle[src]
        IN  lease' = [lease EXCEPT
                        !.idle = IF src = 0 THEN @ ELSE RemoveAt(@, src),
                        !.made = IF src = 0 THEN @ + 1 ELSE @,
                        !.ref[h] = id,
                        !.open[h] = TRUE]
    /\ UNCHANGED leaseFrame

(* hf.Write, or a store into the buffer, through the handle. *)
LeaseWrite(h) ==
    /\ pc = "lease"
    /\ lease.ref[h] # 0
    /\ lease.ref[h] \notin lease.dirty
    /\ lease' = [lease EXCEPT !.dirty = @ \cup {lease.ref[h]}]
    /\ UNCHANGED leaseFrame

(* hashFunc.Close and BuffCloser.Close. *)
LeaseClose(h) ==
    /\ pc = "lease"
    /\ lease.closes < MaxClose
    /\ IF lease.ref[h] = 0
       THEN lease' = [lease EXCEPT !.closes = @ + 1]
       ELSE lease' = [lease EXCEPT
                        !.dirty = IF lease.kind = "hash" THEN @ \ {lease.ref[h]} ELSE @,
                        !.idle = Append(@, lease.ref[h]),
                        !.open[h] = FALSE,
                        !.closes = @ + 1]
    /\ UNCHANGED leaseFrame

(* The goroutine's handle variable goes out of scope. *)
LeaseDrop(h) ==
    /\ pc = "lease"
    /\ lease.ref[h] # 0
    /\ ~lease.open[h]
    /\ lease' = [lease EXCEPT !.ref[h] = 0]
    /\ UNCHANGED leaseFrame

NextLease ==
    \/ \E h \in Holders : LeaseGet(h)
    \/ \E h \in Holders : LeaseWrite(h)
    \/ \E h \in Holders : LeaseClose(h)
    \/ \E h \in Holders : LeaseDrop(h)

-----------------------------------------------------------------------------
(* The calls that lease engines, with the identity of the engines: callers  *)
(* run NewParentNode, computeNodeHash, StringData.Hash and Verify, each     *)
(* along any of its paths.  stack[h] is the call stack of caller h; a frame *)
(* has the function, its position, the engines it leased and has not put    *)
(* back, its deferred Close calls, the number of turns of Verify's loop,    *)
(* and whether it returns an error.                                         *)

MaxCalls == 2

MaxTurns == 2

Callers == {1, 2}

Functions == {"NewParentNode", "computeNodeHash", "StringData.Hash", "Verify"}

Frame(fn) ==
    [fn |-> fn,
     at |-> IF fn \in {"StringData.Hash", "NewParentNode"} THEN "get" ELSE "start",
     held |-> <<>>, deferred |-> <<>>, level |-> 0, err |-> FALSE]

InitCalls ==
    /\ cfg \in {c \in Configs : ~c.hasherNil /\ c.hash = SHA256 /\ ~c.isSort
                                 /\ c.maxG = MaxG}
    /\ data = <<>>
    /\ pc = "calls"
    /\ leaves = <<>>
    /\ cur = <<>>
    /\ nxt = <<>>
    /\ spawned = 0
    /\ workers = <<>>
    /\ nodes = <<>>
    /\ bufs = <<>>
    /\ hpool = <<>>
    /\ mtRoot = 0
    /\ mtLeaves = <<>>
    /\ ret = [tree |-> "none", err |-> NoErr]
    /\ vq = NoVerify
    /\ ctxDone = "no"
    /\ tampered = 0
    /\ cmb = NoCombine
    /\ failed = <<>>
    /\ lease = [kind |-> "hash", idle |-> <<>>, made |-> 0, calls |-> 0,
                stack |-> [h \in Callers |-> <<>>]]

Top(h) == lease.stack[h][Len(lease.stack[h])]

At(h, fn, at) ==
    /\ pc = "calls"
    /\ lease.stack[h] # <<>>
    /\ Top(h).fn \in fn
    /\ Top(h).at \in at

SetTop(h, f) == [lease EXCEPT !.stack[h][Len(lease.stack[h])] = f]

Push(h, caller, fn) ==
    [lease EXCEPT !.stack[h] =
        Append([lease.stack[h] EXCEPT ![Len(lease.stack[h])] = caller], Frame(fn))]

(* sync.Pool.Put: the pool keeps no order; its items are listed by         *)
(* ascending identity.                                                      *)
Put(q, id) ==
    LET k == Cardinality({i \in DOMAIN q : q[i] <= id})
    IN  SubSeq(q, 1, k) \o <<id>> \o SubSeq(q, k + 1, Len(q))

Reverse(q) == AsSeq([i \in 1..Len(q) |-> q[Len(q) + 1 - i]])

(* q without the first occurrence of id. *)
Release(q, id) ==
    IF \E i \in DOMAIN q : q[i] = id
    THEN RemoveAt(q, MinOf({i \in DOMAIN q : q[i] = id}))
    ELSE q

RECURSIVE ReleaseAll(_, _)
ReleaseAll(q, ids) ==
    IF ids = <<>> THEN q ELSE ReleaseAll(Release(q, Head(ids)), Tail(ids))

RECURSIVE PutAll(_, _)
PutAll(q, ids) == IF ids = <<>> THEN q ELSE PutAll(Put(q, Head(ids)), Tail(ids))

(* The position at which Verify goes on after a call that returned nil. *)
After(at) ==
    CASE at = "hashed" -> "scan"
      [] at = "left" -> "right"
      [] at = "right" -> "get"

(* The return of the call on top of the stack of h in L, f being its frame  *)
(* at the return statement: its deferred Close calls run, the last deferred *)
(* first, each putting its engine back in the pool; then its caller goes    *)
(* on: computeNodeHash returns what the Hash of the item returned, Verify   *)
(* returns the error of the call if any.  The outermost call stays on the   *)
(* stack, returning, until CallExit.                                        *)
RECURSIVE Return(_, _, _)
Return(L, h, f) ==
    LET st == L.stack[h]
        n == Len(st)
        g == [f EXCEPT !.at = "return", !.deferred = <<>>,
                       !.held = ReleaseAll(@, Reverse(f.deferred))]
        put == [L EXCEPT !.idle = PutAll(@, Reverse(f.deferred))]
    IN  IF n = 1 THEN [put EXCEPT !.stack[h] = <<g>>]
        ELSE LET popped == [put EXCEPT !.stack[h] = SubSeq(st, 1, n - 1)]
                 caller == st[n - 1]
             IN  IF caller.fn = "computeNodeHash" \/ f.err
                 THEN Return(popped, h, [caller EXCEPT !.err = f.err])
                 ELSE [popped EXCEPT !.stack[h][n - 1].at = After(caller.at)]

(* A caller calls one of the four functions. *)
CallEnter(h, fn) ==
    /\ pc = "calls"
    /\ lease.stack[h] = <<>>
    /\ lease.calls < MaxCalls
    /\ lease' = [lease EXCEPT !.stack[h] = <<Frame(fn)>>, !.calls = @ + 1]
    /\ UNCHANGED leaseFrame

(* computeNodeHash: a leaf has the Hash of its item computed, another node  *)
(* is hashed by the function itself.                                        *)
CallNode(h, leaf) ==
    /\ At(h, {"computeNodeHash"}, {"start"})
    /\ lease' = IF leaf
                THEN Push(h, [Top(h) EXCEPT !.at = "called"], "StringData.Hash")
                ELSE SetTop(h, [Top(h) EXCEPT !.at = "get"])
    /\ UNCHANGED leaseFrame

(* Verify: the return on a tree without leaves, or the Hash of the item. *)
CallVerify(h, empty) ==
    /\ At(h, {"Verify"}, {"start"})
    /\ lease' = IF empty
                THEN Return(lease, h, Top(h))
                ELSE Push(h, [Top(h) EXCEPT !.at = "hashed"], "StringData.Hash")
    /\ UNCHANGED leaseFrame

(* Verify: the scan of the leaves; no leaf matches, or the matching leaf    *)
(* has no Parent, or the loop over currentParent begins.                    *)
CallScan(h, found, parent) ==
    /\ At(h, {"Verify"}, {"scan"})
    /\ lease' = IF found /\ parent
                THEN SetTop(h, [Top(h) EXCEPT !.at = "left", !.level = 1])
                ELSE Return(lease, h, Top(h))
    /\ UNCHANGED leaseFrame

(* Verify: mt.computeNodeHash(currentParent.Left) and (currentParent.Right). *)
CallChild(h) ==
    /\ At(h, {"Verify"}, {"left", "right"})
    /\ lease' = Push(h, Top(h), "computeNodeHash")
    /\ UNCHANGED leaseFrame

DeferNone(d, id) == d

(* defer h.Close(): the calls deferred so far and one more for engine id. *)
Defer(d, id) == Append(d, id)

(* getHash and the defer of Close, or a new engine when there is no pool.   *)
(* sync.Pool.Get gives any idle engine, or a new one.                       *)
CallGet(h) ==
    /\ At(h, Functions, {"get"})
    /\ IF ~cfg.pool
       THEN lease' = SetTop(h, [Top(h) EXCEPT !.at = "write"])
       ELSE \E src \in (IF lease.idle = <<>> THEN {0} ELSE DOMAIN lease.idle) :
                LET id == IF src = 0 THEN lease.made + 1 ELSE lease.idle[src]
                    f == [Top(h) EXCEPT !.at = "write",
                                        !.held = Append(@, id),
                                        !.deferred = Defer(@, id)]
                IN  lease' = [SetTop(h, f) EXCEPT
                                !.idle = IF src = 0 THEN @ ELSE RemoveAt(@, src),
                                !.made = IF src = 0 THEN @ + 1 ELSE @]
    /\ UNCHANGED leaseFrame

(* hf.Write and what follows: the return of the error; in Verify the return *)
(* of false on a digest that differs, the next turn of the loop, or the     *)
(* return of true after the root; in the others the return of the digest.   *)
CallWrite(h, out) ==
    /\ At(h, Functions, {"write"})
    /\ out \in (IF Top(h).fn = "Verify"
                THEN {"err", "differs", "up", "root"}
                ELSE {"err", "ok"})
    /\ out = "up" => Top(h).level < MaxTurns
    /\ lease' = IF out = "up"
                THEN SetTop(h, [Top(h) EXCEPT !.at = "left", !.level = @ + 1])
                ELSE Return(lease, h, [Top(h) EXCEPT !.err = (out = "err")])
    /\ UNCHANGED leaseFrame

(* The outermost call returns to the caller. *)
CallExit(h) ==
    /\ At(h, Functions, {"return"})
    /\ lease' = [lease EXCEPT !.stack[h] = <<>>]
    /\ UNCHANGED leaseFrame

NextCalls ==
    \/ \E h \in Callers, fn \in Functions : CallEnter(h, fn)
    \/ \E h \in Callers, leaf \in BOOLEAN : CallNode(h, leaf)
    \/ \E h \in Callers, empty \in BOOLEAN : CallVerify(h, empty)
    \/ \E h \in Callers, found \in BOOLEAN, parent \in BOOLEAN : CallScan(h, found, parent)
    \/ \E h \in Callers : CallChild(h)
    \/ \E h \in Callers : CallGet(h)
    \/ \E h \in Callers, out \in {"err", "ok", "differs", "up", "root"} : CallWrite(h, out)
    \/ \E h \in Callers : CallExit(h)

SpecCalls == InitCalls /\ [][NextCalls]_vars

-----------------------------------------------------------------------------
(* The root digest of a Build whose goroutines run one after the other.     *)

ParentDigests(ds, isSort) ==
    [c \in 1..ParentsLen(Len(ds)) |->
        PairDigest(isSort, ds[LeftOf(c)], ds[RightOf(c, Len(ds))])]

RECURSIVE ReduceDigests(_, _)
ReduceDigests(ds, isSort) ==
    IF Len(ds) = 2 THEN PairDigest(isSort, ds[1], ds[2])
    ELSE With(AsSeq(ParentDigests(ds, isSort)), LAMBDA up : ReduceDigests(up, isSort))

LeafDigests(d, isSort) ==
    LET padded == IF Len(d) % 2 = 1 THEN Append(d, d[Len(d)]) ELSE d
        N == [i \in DOMAIN padded |-> [Hash |-> LeafDigest(padded[i])]]
        order == IF isSort THEN SortNodes(N, [i \in DOMAIN padded |-> i])
                 ELSE [i \in DOMAIN padded |-> i]
    IN  AsSeq([i \in DOMAIN padded |-> N[order[i]].Hash])

SequentialRoot(d, isSort) ==
    With(LeafDigests(d, isSort), LAMBDA ds : ReduceDigests(ds, isSort))

-----------------------------------------------------------------------------

Next ==
    \/ Build
    \/ RunE
    \/ EmptyTree
    \/ GoLeaf
    \/ \E i \in Active : LeafWorker(i)
    \/ LeafWait
    \/ GoPair
    \/ \E c \in Active : PairConcat(c)
    \/ \E c \in Active : PairFinish(c)
    \/ PairWait
    \/ \E item \in Values : Verify(item, cfg.pool)

Spec == Init /\ [][Next]_vars

SpecTamper == Init /\ [][Next \/ TamperNext]_vars

SpecCancel == Init /\ [][Next \/ Cancel]_vars

SpecCombine == InitCombine /\ [][NextCombine]_vars

SpecLease == InitLease /\ [][NextLease]_vars

SpecReduce == Init /\ [][Next \/ ReduceNext]_vars

SpecFail == Init /\ [][Next \/ FailNext]_vars

(* A caller verifying a built tree under its configuration with the pool    *)
(* taken out or put in, as the tests do.                                    *)
Reverify == \E item \in Values : Verify(item, ~cfg.pool)

SpecReverify == Init /\ [][Next \/ Reverify]_vars

-----------------------------------------------------------------------------
(* Properties of the combination step (SpecCombine). *)

Swapped(s) == ConcatOperands(cfg.isSort, s.d1, s.d2)

(* C5: the bytes a combination step feeds to the hash begin with the first  *)
(* operand followed contiguously by the whole second operand, after the     *)
(* optional swap, in build and in verify alike.                             *)
C5_FedIsBothOperands ==
    \A i \in DOMAIN cmb :
        SubSeq(cmb[i].fed, 1, 2 * HashLen) = Swapped(cmb[i])[1] \o Swapped(cmb[i])[2]

(* C6: with the pairing sort on, two combination steps whose operands are   *)
(* each other's in the opposite order yield the same digest, pooled or not, *)
(* in build or in verify.                                                   *)
C6_SortCommutes ==
    cfg.isSort =>
        \A i \in DOMAIN cmb, j \in DOMAIN cmb :
            (cmb[i].d1 = cmb[j].d2 /\ cmb[i].d2 = cmb[j].d1) => cmb[i].out = cmb[j].out

(* C6 witness: a pooled build step and a verify step on two different       *)
(* digests in opposite orders, with the pairing sort on.                    *)
C6_Witness ==
    /\ cfg.isSort
    /\ cfg.pool
    /\ Len(cmb) = 2
    /\ cmb[1].by = "build"
    /\ cmb[2].by = "verify"
    /\ cmb[1].d1 # cmb[1].d2
    /\ cmb[1].d1 = cmb[2].d2
    /\ cmb[1].d2 = cmb[2].d1

-----------------------------------------------------------------------------
(* Properties of Build's validation and results (Spec, SpecCancel). *)

InvalidInput == cfg.hasherNil \/ cfg.maxG = 0 \/ Len(data) = 0

NoWorkDone ==
    /\ nodes = <<>>
    /\ workers = <<>>
    /\ spawned = 0
    /\ hpool = <<>>
    /\ bufs = <<>>
    /\ mtRoot = 0
    /\ mtLeaves = <<>>

(* C8: with a nil hasher, MaxGoroutine 0 or no items, Build never hashes an *)
(* item nor starts a goroutine, and what it returns is a nil tree and an    *)
(* error, which is ErrMerkleTreeDataIsNilOrEmpty when only the items are    *)
(* missing.                                                                 *)
C8_ValidationFailsFast ==
    InvalidInput =>
        /\ pc \in {"init", "done", "exit", "empty"}
        /\ NoWorkDone
        /\ pc = "done" =>
            /\ ret.tree = "nil"
            /\ ret.err # NoErr
            /\ (~cfg.hasherNil /\ cfg.maxG # 0) => ret.err = ErrDataIsNilOrEmpty

(* C8 witness: Build has returned on an empty item sequence given a usable  *)
(* hasher and a positive MaxGoroutine.                                      *)
C8_Witness ==
    /\ pc = "done"
    /\ ~cfg.hasherNil
    /\ cfg.maxG > 0
    /\ Len(data) = 0
    /\ ret.err = ErrDataIsNilOrEmpty

(* C9: with a hasher whose algorithm is not sha256, the call never panics   *)
(* and, once it has returned, has returned an error (Build and the build    *)
(* command alike).                                                          *)
C9_UnknownHashIsAnError ==
    (~cfg.hasherNil /\ ~IsValid(cfg.hash)) =>
        /\ pc # "panic"
        /\ pc \in {"done", "exit"} => ret.err # NoErr

(* C10: a Build whose context was cancelled while goroutines of the leaf    *)
(* level or of a pairing level were in flight returns an error and no tree. *)
C10_CancelFailsBuild ==
    (ctxDone # "no" /\ pc = "done") => (ret.err # NoErr /\ ret.tree # "mt")
-----------------------------------------------------------------------------
(* Properties of built trees and of Verify (Spec, SpecTamper). *)

Built == pc = "done" /\ ret.tree = "mt"

Verified == Built /\ vq.item # 0

RECURSIVE Under(_, _, _)
Under(N, n, x) == n # 0 /\ (n = x \/ Under(N, N[n].Parent, x))

LeavesOf(item) == {i \in DOMAIN mtLeaves : nodes[mtLeaves[i]].Data = item}

(* C1: on a tree built under a valid configuration, Verify of an item of    *)
(* the input returns (true, nil).                                           *)
C1_VerifyAcceptsItems ==
    (Verified /\ IsValid(cfg.hash) /\ vq.item \in Range(data)) =>
        (vq.ok /\ vq.err = NoErr)

(* C2: on a built tree, Verify of an item that is not in the input returns  *)
(* (false, nil).                                                            *)
C2_VerifyRejectsOthers ==
    (Verified /\ vq.item \notin Range(data)) => (~vq.ok /\ vq.err = NoErr)

(* C2 witness: Verify has run, pooled and with the pairing sort on, for an  *)
(* item that is not among the two or more items of the input.               *)
C2_Witness ==
    /\ Verified
    /\ vq.item \notin Range(data)
    /\ Len(data) >= 2
    /\ cfg.pool
    /\ cfg.isSort

(* C3: the root digest of a built tree is the root digest of the Build of   *)
(* the same items under the same configuration whose goroutines run one     *)
(* after the other.                                                         *)
C3_RootIsDeterministic ==
    (Built /\ IsValid(cfg.hash)) =>
        nodes[mtRoot].Hash = SequentialRoot(data, cfg.isSort)

(* C4: without pooling and without the pairing sort, the root digest of a   *)
(* built tree differs from the root digest of every other item sequence of  *)
(* the same length.                                                         *)
C4_RootCommitsToItems ==
    (Built /\ ~cfg.pool /\ ~cfg.isSort) =>
        \A d \in ItemSeqs :
            (Len(d) = Len(data) /\ d # data) =>
                SequentialRoot(d, cfg.isSort) # nodes[mtRoot].Hash

(* C7 as stated: without pooling, once the stored digest of a non-root      *)
(* internal node has been changed, Verify of an item that has a leaf under  *)
(* that node returns false.                                                 *)
C7_AnyLeafUnderTampered ==
    (Verified /\ tampered # 0 /\ ~cfg.pool
        /\ \E i \in LeavesOf(vq.item) : Under(nodes, mtLeaves[i], tampered))
    => ~vq.ok

(* C7 amended: once the stored digest of a non-root internal node X differs *)
(* from the digest Verify recomputes for X, Verify of an item whose first   *)
(* matching leaf, in the stored leaf order, lies under X returns false.     *)
C7_FirstLeafUnderTampered ==
    (Verified /\ tampered # 0
        /\ nodes[tampered].Hash # Recompute(nodes, tampered, cfg.isSort)
        /\ LeavesOf(vq.item) # {}
        /\ Under(nodes, mtLeaves[FirstMatch(nodes, mtLeaves, LeafDigest(vq.item))], tampered))
    => ~vq.ok

(* C7 witness: Verify has run on an item whose first matching leaf lies     *)
(* under the tampered node and which has another leaf outside of it.        *)
C7_Witness ==
    /\ Verified
    /\ tampered # 0
    /\ nodes[tampered].Hash # Recompute(nodes, tampered, cfg.isSort)
    /\ LeavesOf(vq.item) # {}
    /\ Under(nodes, mtLeaves[FirstMatch(nodes, mtLeaves, LeafDigest(vq.item))], tampered)
    /\ \E i \in LeavesOf(vq.item) : ~Under(nodes, mtLeaves[i], tampered)
    /\ ~vq.ok
-----------------------------------------------------------------------------
(* Properties of the leaf level (Spec). *)

LeavesBuilt == pc = "level" \/ Built

Padding == {i \in DOMAIN leaves : nodes[leaves[i]].isOrphan}

(* C11: the leaf array returned by generateLeafNodes for n items has n      *)
(* entries when n is even and n + 1 when n is odd; when n is odd exactly    *)
(* one entry is flagged as padding, it is a leaf node of its own wrapping   *)
(* the last item, and the n other entries are not flagged; when n is even   *)
(* no entry is flagged.                                                     *)
C11_LeafPadding ==
    LeavesBuilt =>
        LET n == Len(data)
        IN  /\ Len(leaves) = (IF n % 2 = 1 THEN n + 1 ELSE n)
            /\ Cardinality(Padding) = (IF n % 2 = 1 THEN 1 ELSE 0)
            /\ \A i \in Padding :
                /\ isLeaf(nodes[leaves[i]])
                /\ nodes[leaves[i]].Data = data[n]
                /\ \A j \in DOMAIN leaves : j # i => leaves[j] # leaves[i]
                /\ \E j \in DOMAIN leaves \ Padding :
                       nodes[leaves[j]].Data = data[n]

(* C11 witness: a sorted leaf array of an odd number of items whose padding *)
(* leaf is not the last entry.                                              *)
C11_Witness ==
    /\ LeavesBuilt
    /\ Len(data) = 3
    /\ cfg.isSort
    /\ \E i \in Padding : i < Len(leaves)
(* C12: while the leaf goroutines run, slot i of the leaf array is written *)
(* exactly when the goroutine of index i has finished, and holds a leaf     *)
(* wrapping items[i]; once generateLeafNodes has returned without the       *)
(* pairing sort, every slot i <= n holds a leaf wrapping items[i].          *)
C12_LeafOrder ==
    /\ pc = "leaves" =>
        \A i \in DOMAIN leaves :
            /\ leaves[i] # 0 <=> (i <= spawned /\ i \notin Active)
            /\ leaves[i] # 0 => nodes[leaves[i]].Data = data[i]
    /\ (LeavesBuilt /\ ~cfg.isSort) =>
        \A i \in 1..Len(data) :
            /\ leaves[i] # 0
            /\ nodes[leaves[i]].Data = data[i]
            /\ ~nodes[leaves[i]].isOrphan

(* C12 witness: the goroutine of the second item has finished while the one *)
(* of the first item, whose item is different, is still in flight.          *)
C12_Witness ==
    /\ pc = "leaves"
    /\ 1 \in Active
    /\ spawned >= 2
    /\ 2 \notin Active
    /\ leaves[2] # 0
    /\ data[1] # data[2]
-----------------------------------------------------------------------------
(* Properties of the pools (SpecLease). *)

(* C13: however many times handles are closed, no instance is in the pool   *)
(* twice, and no two goroutines hold an open lease of the same instance.    *)
C13_ReleaseIdempotent ==
    /\ \A i \in DOMAIN lease.idle, j \in DOMAIN lease.idle :
        i # j => lease.idle[i] # lease.idle[j]
    /\ \A g \in Holders, h \in Holders :
        (g # h /\ lease.open[g] /\ lease.open[h]) => lease.ref[g] # lease.ref[h]
-----------------------------------------------------------------------------
(* Further properties of Verify (Spec). *)

(* C14: Verify on a tree without leaves returns (false, nil) whatever the   *)
(* item and the configuration, and leases no engine and no buffer.          *)
C14_VerifyEmptyTree ==
    (vq.item # 0 /\ Len(mtLeaves) = 0) =>
        /\ ~vq.ok
        /\ vq.err = NoErr
        /\ hpool = <<>>
        /\ bufs = <<>>

(* C14 witness: Verify has run on a tree without leaves whose              *)
(* configuration has pooling on.                                            *)
C14_Witness ==
    /\ pc = "empty"
    /\ vq.item # 0
    /\ Len(mtLeaves) = 0
    /\ cfg.pool
(* What Verify of item returns on the tree of the current state with       *)
(* pooling vp, working in pooled buffer b.                                  *)
VerifyOutcome(item, vp, b) ==
    IF Len(mtLeaves) # 0 /\ ~vp /\ HashFuncPanics(cfg.hash)
    THEN [ok |-> FALSE, err |-> "panic"]
    ELSE [ok |-> VerifyCall(nodes, mtLeaves, item, vp, cfg.isSort,
                            IF vp THEN GetConcatBuffers(bufs, b) ELSE MakeBuf,
                            hpool).ok,
          err |-> NoErr]

(* C15: what Verify returned for an item on a built tree is what Verify     *)
(* returns for that item on that tree with pooling the other way.           *)
C15_PoolingDoesNotMatter ==
    Verified =>
        \A b \in BufChoices(bufs) :
            VerifyOutcome(vq.item, ~vq.pool, b) = [ok |-> vq.ok, err |-> vq.err]

(* C15 for sha256 only. *)
C15_PoolingDoesNotMatterSha256 ==
    IsValid(cfg.hash) => C15_PoolingDoesNotMatter
-----------------------------------------------------------------------------
(* Properties of the goroutines of a Build (Spec). *)

Hashing(c) == c \in Active /\ workers[c].pc = "hash" /\ workers[c].buf # 0

(* C16: a pooled scratch buffer that a pairing goroutine has filled and not *)
(* hashed yet is the buffer of no other pairing goroutine, and what the     *)
(* goroutine is about to hash is what its concat wrote: its first operand   *)
(* at the head of the buffer.                                               *)
C16_BufferExclusive ==
    \A c \in Active :
        Hashing(c) =>
            /\ \A a \in Active \ {c} : ~(Hashing(a) /\ workers[a].buf = workers[c].buf)
            /\ SubSeq(workers[c].view, 1, HashLen) =
                   ConcatOperands(cfg.isSort, nodes[cur[LeftOf(c)]].Hash,
                                  nodes[cur[RightOf(c, Len(cur))]].Hash)[1]
(* C17: while leaf goroutines are in flight there is no padding leaf, no   *)
(* parent node and no pairing level; while a pairing level is in flight     *)
(* every node of the level it pairs has been made, the parents made so far  *)
(* are those of the goroutines of this level that have finished, and the    *)
(* parents of this level have no parent themselves; outside of the two      *)
(* loops no goroutine is in flight.                                          *)
C17_LevelBarrier ==
    /\ pc = "leaves" =>
        /\ cur = <<>>
        /\ \A n \in DOMAIN nodes : isLeaf(nodes[n]) /\ ~nodes[n].isOrphan
    /\ pc = "level" =>
        /\ \A i \in DOMAIN cur : cur[i] # 0
        /\ \A c \in DOMAIN nxt :
            /\ nxt[c] # 0 <=> (c <= spawned /\ c \notin Active)
            /\ nxt[c] # 0 => nodes[nxt[c]].Parent = 0
        /\ \A i \in DOMAIN cur :
            nodes[cur[i]].Parent # 0 => nodes[cur[i]].Parent = nxt[(i + 1) \div 2]
    /\ pc \in {"init", "done", "exit", "empty"} => Active = {}

(* C17 witness: the goroutine of the second pairing level of four leaves is *)
(* in flight.                                                                *)
C17_Witness ==
    /\ pc = "level"
    /\ Len(leaves) = 4
    /\ Len(cur) = 2
    /\ Active # {}
(* C18: at every moment the number of goroutines in flight is at most the  *)
(* MaxGoroutine of the configuration.                                       *)
C18_BoundedFanOut == Cardinality(Active) <= cfg.maxG

(* C18 witness: with MaxGoroutine 1, one pairing goroutine is in flight and *)
(* another pair of the level is still to be started.                        *)
C18_Witness ==
    /\ pc = "level"
    /\ cfg.maxG = 1
    /\ Cardinality(Active) = 1
    /\ spawned < ParentsLen(Len(cur))
-----------------------------------------------------------------------------
(* Properties of the parent reduction called on any array (SpecReduce). *)

(* C19: every level of the parent reduction is shorter than the level it    *)
(* pairs, so that the reduction reaches its last level and returns.         *)
C19_LevelsShrink ==
    pc = "level" => Len(nxt) < Len(cur)
(* C20: the level made from a level of L nodes has ceil(L / 2) entries;     *)
(* its c-th parent has nodes 2c - 1 and 2c of the level as Left and Right,  *)
(* except that, L being odd, the last parent has the last node of the level *)
(* as both; a parent is no leaf, and no leaf is made beside those of the    *)
(* leaf array.                                                              *)
C20_SelfPairing ==
    pc = "level" =>
        LET L == Len(cur)
        IN  /\ Len(nxt) = (L + 1) \div 2
            /\ \A c \in DOMAIN nxt :
                nxt[c] # 0 =>
                    /\ nodes[nxt[c]].Left = cur[2 * c - 1]
                    /\ nodes[nxt[c]].Right = cur[IF 2 * c > L THEN 2 * c - 1 ELSE 2 * c]
                    /\ nodes[nxt[c]].Data = 0
                    /\ ~nodes[nxt[c]].isOrphan
            /\ \A n \in DOMAIN nodes : isLeaf(nodes[n]) => n \in Range(leaves)

(* C20 witness: of a level of three nodes the second parent has been made,  *)
(* with the third node as Left and as Right.                                *)
C20_Witness ==
    /\ pc = "level"
    /\ Len(cur) = 3
    /\ nxt[2] # 0
    /\ nodes[nxt[2]].Left = cur[3]
    /\ nodes[nxt[2]].Right = cur[3]
-----------------------------------------------------------------------------
(* Properties of the shape of built trees (Spec). *)

LeafParents == {p \in DOMAIN nodes : ~isLeaf(nodes[p]) /\ isLeaf(nodes[nodes[p].Left])}

(* C21: in a Build, the leaf array has an even number of entries, all of    *)
(* them different nodes, and every parent of a leaf has two different leaf  *)
(* nodes of the array as Left and Right; for an odd number of items the     *)
(* last item's leaf and the padding leaf are different nodes.               *)
C21_LeafLevelNotSelfPaired ==
    LeavesBuilt =>
        /\ Len(leaves) % 2 = 0
        /\ \A i \in DOMAIN leaves, j \in DOMAIN leaves : i # j => leaves[i] # leaves[j]
        /\ \A p \in LeafParents :
            /\ nodes[p].Left # nodes[p].Right
            /\ isLeaf(nodes[nodes[p].Right])
            /\ nodes[p].Left \in Range(leaves)
            /\ nodes[p].Right \in Range(leaves)
        /\ Built => mtLeaves = leaves

(* C21 witness: a tree built from three items without the pairing sort,     *)
(* whose second parent of leaves has the last item's leaf as Left and the   *)
(* padding leaf as Right.                                                   *)
C21_Witness ==
    /\ Built
    /\ Len(data) = 3
    /\ ~cfg.isSort
    /\ \E p \in LeafParents :
        /\ nodes[p].Left = mtLeaves[3]
        /\ nodes[p].Right = mtLeaves[4]
        /\ ~nodes[mtLeaves[3]].isOrphan
        /\ nodes[mtLeaves[4]].isOrphan

(* The node at which the Parent chain of n ends, followed for at most fuel  *)
(* steps (0 when it has not ended by then).                                 *)
RECURSIVE ChainEnd(_, _, _)
ChainEnd(N, n, fuel) ==
    IF N[n].Parent = 0 THEN n
    ELSE IF fuel = 0 THEN 0
    ELSE ChainEnd(N, N[n].Parent, fuel - 1)

(* C22: in a built tree, both children of every internal node have that     *)
(* node as Parent, the root has no Parent and is the only node without one, *)
(* and the Parent chain of every leaf of Leaves ends at the root within as  *)
(* many steps as there are nodes.                                           *)
C22_ParentLinks ==
    Built =>
        /\ \A p \in DOMAIN nodes :
            ~isLeaf(nodes[p]) =>
                /\ nodes[nodes[p].Left].Parent = p
                /\ nodes[nodes[p].Right].Parent = p
        /\ mtRoot \in DOMAIN nodes
        /\ nodes[mtRoot].Parent = 0
        /\ \A n \in DOMAIN nodes : nodes[n].Parent = 0 => n = mtRoot
        /\ \A i \in DOMAIN mtLeaves :
            ChainEnd(nodes, mtLeaves[i], Cardinality(DOMAIN nodes)) = mtRoot

(* C22 witness: a tree of two levels of parents built by Build from three   *)
(* items, with pooling on.                                                  *)
C22_Witness ==
    /\ Built
    /\ Len(data) = 3
    /\ Len(mtLeaves) = 4
    /\ cfg.pool
    /\ Height(nodes, mtRoot) = 2
    /\ \A i \in DOMAIN mtLeaves : nodes[nodes[mtLeaves[i]].Parent].Parent = mtRoot
-----------------------------------------------------------------------------
(* Properties of a Build whose goroutines fail (SpecFail). *)

Returned == (1..spawned) \ Active

(* C23: once a goroutine of the leaf level or of a pairing level has        *)
(* returned an error, the errors returned are all of goroutines of the      *)
(* level then running, whose slots stay nil, so that no goroutine of a      *)
(* later level has been started; and once Build has returned, it has        *)
(* returned the first of these errors, wrapped, beside a tree whose Root    *)
(* and Leaves are nil.                                                      *)
C23_WorkerFailure ==
    failed # <<>> =>
        /\ pc \in {"leaves", "level", "done"}
        /\ pc = "leaves" =>
            \A k \in DOMAIN failed :
                \E i \in Returned : failed[k] = LeafErr(i) /\ leaves[i] = 0
        /\ pc = "level" =>
            \A k \in DOMAIN failed :
                \E c \in Returned : failed[k] = PairErr(c) /\ nxt[c] = 0
        /\ pc = "done" =>
            /\ ret.err \in {Wrap("mt.generateLeafNodes(data)", failed[1]),
                            Wrap("mt.generateParentNodes()", failed[1])}
            /\ mtRoot = 0
            /\ mtLeaves = <<>>
            /\ Active = {}

(* C23 witness: Build has returned after both goroutines of the first       *)
(* pairing level of four leaves failed, the one of the second pair first.   *)
C23_Witness ==
    /\ pc = "done"
    /\ Len(leaves) = 4
    /\ failed = <<PairErr(2), PairErr(1)>>
    /\ ret.err = Wrap("mt.generateParentNodes()", PairErr(2))
-----------------------------------------------------------------------------
(* Properties of the engines of the HashPool in a Build and its Verify      *)
(* calls (Spec).                                                            *)

(* The bytes that were hashed to give digest d. *)
HashedBytes(d) == d[1][1]

(* C24: every idle engine of the HashPool holds no written byte, and so     *)
(* does the engine a pairing goroutine has leased and not written to yet;   *)
(* the digest of a leaf is the digest of the bytes of its item alone, and   *)
(* the digest of a parent is the digest of the bytes of one scratch buffer  *)
(* alone.                                                                   *)
C24_EnginesLeasedEmpty ==
    /\ \A i \in DOMAIN hpool : hpool[i] = NewEngine
    /\ \A c \in Active : workers[c].pc = "hash" => workers[c].eng = NewEngine
    /\ \A n \in DOMAIN nodes :
        IF isLeaf(nodes[n])
        THEN HashedBytes(nodes[n].Hash) = StringBytes(nodes[n].Data)
        ELSE Len(HashedBytes(nodes[n].Hash)) = BufLen

(* C24 witness: with pooling on and MaxGoroutine 1, a pairing goroutine     *)
(* holds the one engine of the pool, which hashed the items before.         *)
C24_Witness ==
    /\ pc = "level"
    /\ cfg.pool
    /\ cfg.maxG = 1
    /\ hpool = <<>>
    /\ \E c \in Active : workers[c].pc = "hash" /\ workers[c].eng = NewEngine
-----------------------------------------------------------------------------
(* Properties of the order of the leaf array (Spec). *)

(* C25: the leaf array generateLeafNodes returns holds every leaf made,     *)
(* the padding leaf included, once; with the pairing sort on, no entry has  *)
(* a digest greater than the digest of a later entry; with the pairing sort *)
(* off, entry i is the leaf the goroutine of index i made and the padding   *)
(* leaf is the last entry; and Leaves of the built tree is that array.      *)
C25_LeafSort ==
    LeavesBuilt =>
        /\ Len(leaves) = LeavesLen(data)
        /\ Range(leaves) = 1..Len(leaves)
        /\ cfg.isSort =>
            \A i \in DOMAIN leaves, j \in DOMAIN leaves :
                i < j => Compare(nodes[leaves[i]].Hash, nodes[leaves[j]].Hash) # 1
        /\ ~cfg.isSort =>
            \A i \in DOMAIN leaves :
                /\ leaves[i] = i
                /\ nodes[leaves[i]].isOrphan <=> i > Len(data)
        /\ Built => mtLeaves = leaves

(* C25 witness: a tree built with the pairing sort on from three items      *)
(* whose leaf array is not in the order of the items.                       *)
C25_Witness ==
    /\ Built
    /\ cfg.isSort
    /\ Len(data) = 3
    /\ \E i \in DOMAIN mtLeaves : mtLeaves[i] # i
    /\ \E i \in DOMAIN mtLeaves : nodes[mtLeaves[i]].Hash # nodes[mtLeaves[1]].Hash
-----------------------------------------------------------------------------
(* Properties of the leaf Verify starts from (SpecTamper). *)

(* Every node from p up to the root has as stored digest the digest Verify  *)
(* recomputes for it.                                                       *)
RECURSIVE PathRecomputes(_, _)
PathRecomputes(N, p) ==
    p = 0 \/ (Recompute(N, p, cfg.isSort) = N[p].Hash /\ PathRecomputes(N, N[p].Parent))

MatchingLeaves(item) ==
    {i \in DOMAIN mtLeaves : nodes[mtLeaves[i]].Hash = LeafDigest(item)}

(* C26: what Verify returns for an item whose digest is the digest of one   *)
(* or more leaves is whether the path from the first of these leaves, in    *)
(* the stored order, up to the root recomputes; so it returns false when    *)
(* that path does not, whatever the paths of the later matching leaves.     *)
C26_FirstMatchOnly ==
    (Verified /\ vq.err = NoErr /\ MatchingLeaves(vq.item) # {}) =>
        (vq.ok <=> PathRecomputes(nodes, nodes[mtLeaves[MinOf(MatchingLeaves(vq.item))]].Parent))

(* C26 witness: Verify has returned false for an item whose first matching  *)
(* leaf has a path that does not recompute and which has a later matching   *)
(* leaf whose path does.                                                    *)
C26_Witness ==
    /\ Verified
    /\ vq.err = NoErr
    /\ ~vq.ok
    /\ \E i \in MatchingLeaves(vq.item) :
        /\ i > MinOf(MatchingLeaves(vq.item))
        /\ PathRecomputes(nodes, nodes[mtLeaves[i]].Parent)
-----------------------------------------------------------------------------
(* Properties of the calls that lease engines (SpecCalls). *)

(* The calls in progress: caller and depth in its stack. *)
LiveFrames == UNION {{<<h, k>> : k \in DOMAIN lease.stack[h]} : h \in Callers}

FrameOf(x) == lease.stack[x[1]][x[2]]

Returning(f) == f.at = "return"

Times(q, id) == Cardinality({i \in DOMAIN q : q[i] = id})

(* The engines call x has leased and not put back. *)
HeldBy(x) == Range(FrameOf(x).held)

Out == UNION {HeldBy(x) : x \in LiveFrames}

(* C27: a call that is about to lease an engine can do so, whatever the     *)
(* pool holds; a call that is returning, on any of its paths, has put back  *)
(* every engine it leased; without a pool no engine is leased; and every    *)
(* engine made is either idle in the pool, once, or leased by one call in   *)
(* progress, once, so that no engine was put back twice and none was lost.  *)
C27_LeaseBalance ==
    /\ \A x \in LiveFrames :
        LET f == FrameOf(x)
        IN  /\ f.at = "get" => ENABLED CallGet(x[1])
            /\ Returning(f) => (f.held = <<>> /\ f.deferred = <<>>)
            /\ \A id \in HeldBy(x) : Times(f.held, id) = 1
            /\ ~cfg.pool => f.held = <<>>
    /\ \A x \in LiveFrames, y \in LiveFrames : x # y => HeldBy(x) \cap HeldBy(y) = {}
    /\ \A id \in 1..lease.made : Times(lease.idle, id) = (IF id \in Out THEN 0 ELSE 1)
    /\ Range(lease.idle) \cup Out = 1..lease.made

(* C27 witness: a Verify is returning an error from the second turn of its  *)
(* loop, in which it held two engines, while the other caller holds an      *)
(* engine; the two engines are idle in the pool again.                      *)
C27_Witness ==
    /\ cfg.pool
    /\ \E x \in LiveFrames :
        LET f == FrameOf(x)
        IN  /\ f.fn = "Verify"
            /\ Returning(f)
            /\ f.err
            /\ f.level = 2
    /\ Len(lease.idle) = 2
    /\ Cardinality(Out) = 1
-----------------------------------------------------------------------------
(* Properties of what Verify leaves alone (SpecTamper). *)

(* C28: a Verify call, whatever the item, the tree and the result, leaves   *)
(* Root, Leaves and every field of every node as they were.                 *)
C28_VerifyReadOnly ==
    [][(\E item \in Values : Verify(item, cfg.pool)) =>
            (nodes' = nodes /\ mtRoot' = mtRoot /\ mtLeaves' = mtLeaves)]_vars

(* C28 witness: Verify has returned false on a tree in which the stored     *)
(* digest of an internal node is still the one it was overwritten with.     *)
C28_Witness ==
    /\ Verified
    /\ ~vq.ok
    /\ vq.item \in Range(data)
    /\ tampered # 0
    /\ nodes[tampered].Hash = Garbage

=============================================================================
